---- MODULE Spec2Model ----
(***************************************************************************)
(* Model of BlocklyDialogs (src/unnamed/part_000): the dialog manager that *)
(* shows, hides and drags the single pop-up dialog, together with the DOM  *)
(* state it touches (dialog container, backdrop "dialogShadow", animated   *)
(* "dialogBorder", body), the browser timer queue and the body keydown     *)
(* listeners.  A handler runs to completion, so each handler is one action *)
(* and its body is an operator on the record of the program state.         *)
(* The second part models FieldTurtle (field_turtle.js): the three-part    *)
(* value of the turtle field, its validation and its dropdown editor.      *)
(***************************************************************************)
EXTENDS Integers, Sequences, FiniteSets, Bags, TLC

\* ------------------------------------------------------------------ bounds
MaxCalls == 2
MaxTimers == 2
MaxCoord == 2
MaxEditors == 2

\* ------------------------------------------------------- program constants
ShadowOpacity == 3
ShowDelay == 175
HideDelay == 175
AbortRetryDelay == 15000
KeyEnter == 13
KeyEscape == 27
KeySpace == 32
DialogZ == 10
ShadowZ == 9

\* ------------------------------------------------------------- test inputs
\* Elements handed to showDialog by the callers of this model.
NullElem == "null"
ShowContents == {"c1", "c2"}
Origins == {NullElem, "o1"}
\* Enter, Escape, Space and one key that is none of them.
Keys == {KeyEnter, KeyEscape, KeySpace, 65}
Coords == 0..MaxCoord
\* Style dictionaries: a function from style names to pixel values.
EmptyStyle == [n \in {} |-> 0]
BoxStyle == [n \in {"left", "top", "width"} |-> 1]
Styles == {EmptyStyle, BoxStyle}
\* Viewport sizes (window.innerWidth, window.innerHeight).
ViewWidths == {MaxCoord}
ViewHeights == {MaxCoord + 1}

\* Elements of each content carrying class 'primary', class 'secondary',
\* tag 'button' and class 'addHideHandler', in document order.
PrimaryOf(c) ==
  IF c = "c1" THEN <<"c1.cancel", "c1.ok">> ELSE <<>>
SecondaryOf(c) ==
  IF c = "dialogAbort" THEN <<"abortOk">> ELSE <<>>
ButtonsOf(c) ==
  CASE c = "c1" -> <<"c1.close", "c1.cancel", "c1.ok">>
    [] c = "c2" -> <<>>
    [] c = "dialogStorage" -> <<"storageOk">>
    [] c = "dialogAbort" -> <<"abortCancel", "abortOk">>
    [] OTHER -> <<>>
AutoHideOf(c) ==
  CASE c = "c1" -> {"c1.close", "c1.cancel"}
    [] c = "dialogStorage" -> {"storageOk"}
    [] c = "dialogAbort" -> {"abortCancel"}
    [] OTHER -> {}
AllContents == {"c1", "c2", "dialogStorage", "dialogAbort"}
AllAutoHide == UNION {AutoHideOf(c) : c \in AllContents}

\* ------------------------------------------------------------------- state
VARIABLES
  isDialogVisible_,
  dialogOrigin_,
  dialogDispose_,
  dialogMouseDownWrapper_,
  dialogMouseUpWrapper_,
  dialogMouseMoveWrapper_,
  dialogStartX_,
  dialogStartY_,
  dialog,
  shadow,
  border,
  body,
  hiddenContent,
  addHideHandler,
  hideListeners,
  focused,
  timers,
  keydown,
  window,
  okListeners,
  containerStorage,
  levelDone,
  wsDragging,
  navigated,
  calls,
  fired,
  log,
  lastOp,
  dragFrom,
  value_,
  displayValue_,
  isValueInvalid_,
  cachedValidatedValue_,
  editor_,
  editorListeners_,
  boundListeners,
  dropDownOpen,
  returned,
  turtleOp

\* The turtle field: its committed and displayed values, the invalid flag,
\* the value the class validator cached, the number of editor widgets made
\* (0: editor_ undefined), the tracked listeners, the listeners bound in the
\* browser, whether the dropdown is open; and the observers returned (what
\* doClassValidation_ returned last) and turtleOp (the last operation).
turtleVars == <<value_, displayValue_, isValueInvalid_, cachedValidatedValue_,
                editor_, editorListeners_, boundListeners, dropDownOpen,
                returned, turtleOp>>

\* The dialog manager and its observers.
dialogVars == <<isDialogVisible_, dialogOrigin_, dialogDispose_,
                dialogMouseDownWrapper_, dialogMouseUpWrapper_,
                dialogMouseMoveWrapper_, dialogStartX_, dialogStartY_, dialog,
                shadow, border, body, hiddenContent, addHideHandler,
                hideListeners, focused, timers, keydown, window, okListeners,
                containerStorage, levelDone, wsDragging, navigated, calls,
                fired, log, lastOp, dragFrom>>

vars == <<dialogVars, turtleVars>>

\* The variables of the program proper (everything but the observers calls,
\* fired, log, lastOp and dragFrom).
progVars == <<isDialogVisible_, dialogOrigin_, dialogDispose_,
              dialogMouseDownWrapper_, dialogMouseUpWrapper_,
              dialogMouseMoveWrapper_, dialogStartX_, dialogStartY_, dialog,
              shadow, border, body, hiddenContent, addHideHandler,
              hideListeners, focused, timers, keydown, window, okListeners,
              containerStorage, levelDone, wsDragging, navigated>>

\* The state as one record, so that a handler is an operator on states.
St ==
  [isDialogVisible_ |-> isDialogVisible_,
   dialogOrigin_ |-> dialogOrigin_,
   dialogDispose_ |-> dialogDispose_,
   dialogMouseDownWrapper_ |-> dialogMouseDownWrapper_,
   dialogMouseUpWrapper_ |-> dialogMouseUpWrapper_,
   dialogMouseMoveWrapper_ |-> dialogMouseMoveWrapper_,
   dialogStartX_ |-> dialogStartX_,
   dialogStartY_ |-> dialogStartY_,
   dialog |-> dialog,
   shadow |-> shadow,
   border |-> border,
   body |-> body,
   hiddenContent |-> hiddenContent,
   addHideHandler |-> addHideHandler,
   hideListeners |-> hideListeners,
   focused |-> focused,
   timers |-> timers,
   keydown |-> keydown,
   window |-> window,
   okListeners |-> okListeners,
   containerStorage |-> containerStorage,
   levelDone |-> levelDone,
   wsDragging |-> wsDragging,
   navigated |-> navigated,
   calls |-> calls,
   fired |-> fired,
   log |-> <<>>]

Commit(t) ==
  /\ isDialogVisible_' = t.isDialogVisible_
  /\ dialogOrigin_' = t.dialogOrigin_
  /\ dialogDispose_' = t.dialogDispose_
  /\ dialogMouseDownWrapper_' = t.dialogMouseDownWrapper_
  /\ dialogMouseUpWrapper_' = t.dialogMouseUpWrapper_
  /\ dialogMouseMoveWrapper_' = t.dialogMouseMoveWrapper_
  /\ dialogStartX_' = t.dialogStartX_
  /\ dialogStartY_' = t.dialogStartY_
  /\ dialog' = t.dialog
  /\ shadow' = t.shadow
  /\ border' = t.border
  /\ body' = t.body
  /\ hiddenContent' = t.hiddenContent
  /\ addHideHandler' = t.addHideHandler
  /\ hideListeners' = t.hideListeners
  /\ focused' = t.focused
  /\ timers' = t.timers
  /\ keydown' = t.keydown
  /\ window' = t.window
  /\ okListeners' = t.okListeners
  /\ containerStorage' = t.containerStorage
  /\ levelDone' = t.levelDone
  /\ wsDragging' = t.wsDragging
  /\ navigated' = t.navigated
  /\ calls' = t.calls
  /\ fired' = t.fired
  /\ log' = t.log

\* ------------------------------------------------------ values and helpers
\* A dispose function: fn names the function, id the showDialog call that
\* stored it (0 for none).
NoDispose == [fn |-> "null", id |-> 0]
DisposeFns == {"null", "plain", "reHide", "reShow"}

Ev(e, c, id) == [e |-> e, c |-> c, id |-> id]
Note(s, e, c, id) == [s EXCEPT !.log = Append(@, Ev(e, c, id))]

Max(a, b) == IF a >= b THEN a ELSE b
Min(a, b) == IF a <= b THEN a ELSE b

InSeq(x, q) == \E i \in 1..Len(q) : q[i] = x
Without(q, x) == SelectSeq(q, LAMBDA y : y # x)
FirstIndex(q, x) == CHOOSE i \in 1..Len(q) : q[i] = x /\ \A j \in 1..(i - 1) : q[j] # x
RemoveFirst(q, x) ==
  IF InSeq(x, q)
  THEN [i \in 1..(Len(q) - 1) |-> IF i < FirstIndex(q, x) THEN q[i] ELSE q[i + 1]]
  ELSE q

Timer(kind, c, id, delay) == [kind |-> kind, c |-> c, id |-> id, delay |-> delay]
\* setTimeout(f, delay): the timer joins the queue of pending timers.
setTimeout(s, t) ==
  Note([s EXCEPT !.timers = Append(@, t)], "setTimeout", t.kind, t.id)

\* ------------------------------------------------------------ the handlers
RECURSIVE showDialog(_, _, _, _, _, _, _), hideDialog(_, _), RunDispose(_, _)

\* Element.focus() / Element.blur() of the host.
Focus(s, el) == Note([s EXCEPT !.focused = el], "focus", el, 0)
Blur(s, el) == IF s.focused = el THEN [s EXCEPT !.focused = "none"] ELSE s

\* matchBorder_ makes the animated border visible and sets whether it
\* animates; the geometry and opacity that its function 'change' copies from
\* the element's bounding box are not part of the state of this model.
matchBorder_(s, element, animate, opacity) ==
  IF element = NullElem THEN s
  ELSE [s EXCEPT !.border.className = IF animate THEN "dialogAnimate" ELSE "",
                 !.border.visibility = "visible"]

\* Blockly.browserEvents.unbind of the two document-level listeners.
dialogUnbindDragEvents_(s) ==
  LET s1 == IF s.dialogMouseUpWrapper_ # "null"
            THEN Note([s EXCEPT !.dialogMouseUpWrapper_ = "null"],
                      "unbind", "mouseup", 0)
            ELSE s
  IN IF s1.dialogMouseMoveWrapper_ # "null"
     THEN Note([s1 EXCEPT !.dialogMouseMoveWrapper_ = "null"],
               "unbind", "mousemove", 0)
     ELSE s1

\* document.body.addEventListener / removeEventListener('keydown', f, true):
\* the listeners of the body in the order they were added, each at most once.
addKeyDown(s, f) ==
  IF InSeq(f, s.keydown) THEN s ELSE [s EXCEPT !.keydown = Append(@, f)]
removeKeyDown(s, f) == [s EXCEPT !.keydown = Without(@, f)]

startDialogKeyDown(s) == addKeyDown(s, "dialogKeyDown")
stopDialogKeyDown(s) == removeKeyDown(s, "dialogKeyDown")
\* abortDispose as it would be if it removed the other listener.
abortDisposeOtherListener(s) == removeKeyDown(s, "dialogKeyDown")

\* The anonymous dispose function that abortOffer passes to showDialog.
abortDispose(s) == removeKeyDown(s, "abortKeyDown_")

\* The function 'endResult' of hideDialog.
hideEndResult(s) ==
  Note([s EXCEPT !.shadow.zIndex = -1, !.shadow.visibility = "hidden",
                 !.border.visibility = "hidden"], "hideEnd", "", 0)

\* focusTarget as it would be if it took the first button whatever its class.
focusTargetAnyButton(content) ==
  IF Len(ButtonsOf(content)) # 0 THEN ButtonsOf(content)[1] ELSE "none"

\* The element the focus policy of showDialog's endResult selects.
focusTarget(content) ==
  LET buttons == IF Len(PrimaryOf(content)) # 0 THEN PrimaryOf(content)
                 ELSE IF Len(SecondaryOf(content)) # 0 THEN SecondaryOf(content)
                 ELSE ButtonsOf(content)
  IN IF Len(buttons) # 0 THEN buttons[1] ELSE "none"

\* The function 'endResult' of showDialog, closed over 'content'.
showEndResult(s, content) ==
  IF ~s.isDialogVisible_ THEN s
  ELSE LET s1 == Note([s EXCEPT !.dialog.visibility = "visible",
                                !.dialog.zIndex = DialogZ,
                                !.border.visibility = "hidden"],
                      "showEnd", content, 0)
       IN IF focusTarget(content) # "none"
          THEN Focus(s1, focusTarget(content)) ELSE s1

\* getElementById('dialogHeader') and its removal from its parent: the
\* first header in document order, the dialog container before the nodes
\* appended to the body.  The body is the bag of the nodes appended to it;
\* hiddenContent is the set of the elements of class 'dialogHiddenContent'
\* (every header at the body has it).
removeHeader(s) ==
  IF InSeq("dialogHeader", s.dialog.children)
  THEN [s EXCEPT !.dialog.children = RemoveFirst(@, "dialogHeader")]
  ELSE IF BagIn("dialogHeader", s.body)
  THEN [s EXCEPT !.body = @ (-) SetToBag({"dialogHeader"})]
  ELSE s

\* The loop that moves every child of the dialog container to the body.
RECURSIVE detachAll(_)
detachAll(s) ==
  IF Len(s.dialog.children) = 0 THEN s
  ELSE LET content == Head(s.dialog.children)
       IN detachAll(Note([s EXCEPT !.hiddenContent = @ \cup {content},
                                   !.dialog.children = Tail(@),
                                   !.body = @ (+) SetToBag({content})],
                         "detach", content, 0))

\* What a dispose function finds when it is called: the flag, the number
\* of children of the dialog container and the number of listeners bound
\* for the header and the drag.
Seen(s) ==
  <<Ev("isDialogVisible_", IF s.isDialogVisible_ THEN "true" ELSE "false", 0),
    Ev("children", "", Len(s.dialog.children)),
    Ev("wrappers", "",
       Cardinality({w \in {"mousedown", "mouseup", "mousemove"} :
                      w \in {s.dialogMouseDownWrapper_,
                             s.dialogMouseUpWrapper_,
                             s.dialogMouseMoveWrapper_}}))>>

RunDispose(s, d) ==
  LET s0 == [Note([s EXCEPT !.fired[d.id] = @ + 1], "dispose", d.fn, d.id)
               EXCEPT !.log = @ \o Seen(s)]
  IN CASE d.fn = "reHide" -> hideDialog(s0, TRUE)
       [] d.fn = "reShow" ->
            showDialog(s0, "c2", NullElem, FALSE, TRUE, EmptyStyle, "plain")
       [] d.fn = "stopDialogKeyDown" -> stopDialogKeyDown(s0)
       [] d.fn = "abortDispose" -> abortDispose(s0)
       [] OTHER -> s0

\* hideDialog, first part: the drag and mouse-down listeners are unbound.
hideUnbind(s) ==
  LET s1 == dialogUnbindDragEvents_(s)
  IN IF s1.dialogMouseDownWrapper_ # "null"
     THEN [s1 EXCEPT !.dialogMouseDownWrapper_ = "null"] ELSE s1

\* hideDispose as it would be if the dispose function were not cleared.
hideDisposeKeep(s) ==
  LET s1 == [s EXCEPT !.isDialogVisible_ = FALSE]
  IN IF s1.dialogDispose_.fn # "null"
     THEN RunDispose(s1, s1.dialogDispose_) ELSE s1

\* hideDialog, second part: the flag is cleared, then the dispose function is
\* called and cleared.
hideDispose(s) ==
  LET s1 == [s EXCEPT !.isDialogVisible_ = FALSE]
      s2 == IF s1.dialogDispose_.fn # "null"
            THEN RunDispose(s1, s1.dialogDispose_) ELSE s1
  IN [s2 EXCEPT !.dialogDispose_ = NoDispose]

\* hideAnimate as it would be if opt_animate were ignored.
hideAnimateAlways(s, opt_animate) ==
  LET s1 == [s EXCEPT !.shadow.opacity = 0]
  IN IF s.dialogOrigin_ # NullElem
     THEN setTimeout(matchBorder_(matchBorder_(s1, "dialog", FALSE, 8),
                                  s.dialogOrigin_, TRUE, 2),
                     Timer("hideEnd", "", 0, HideDelay))
     ELSE hideEndResult(s1)

\* hideDialog, third part: the backdrop fades and the final state is set
\* now or, when animating towards the origin, 175ms later.
hideAnimate(s, opt_animate) ==
  LET origin == IF opt_animate THEN s.dialogOrigin_ ELSE NullElem
      s1 == [s EXCEPT !.shadow.opacity = 0]
  IN IF origin # NullElem
     THEN setTimeout(matchBorder_(matchBorder_(s1, "dialog", FALSE, 8),
                                  origin, TRUE, 2),
                     Timer("hideEnd", "", 0, HideDelay))
     ELSE hideEndResult(s1)

\* hideDetach as it would be if the container were left visible for the
\* delayed step to hide.
hideDetachLeaveVisible(s) == detachAll(removeHeader(s))

\* hideDialog, last part: the container is hidden, the header removed and
\* every child moved to the body.
hideDetach(s) ==
  detachAll(removeHeader([s EXCEPT !.dialog.visibility = "hidden",
                                   !.dialog.zIndex = -1]))

\* hideDialog as it would be if only the dispose step checked the flag.
hideDialogNoGuard(s, opt_animate) ==
  hideDetach(hideAnimate(IF s.isDialogVisible_ THEN hideDispose(hideUnbind(s))
                         ELSE s, opt_animate))

\* hideDialog as it would be if the dispose function were called last.
hideDialogDisposeLast(s, opt_animate) ==
  IF ~s.isDialogVisible_ THEN s
  ELSE hideDispose(hideDetach(hideAnimate(hideUnbind(s), opt_animate)))

hideDialog(s, opt_animate) ==
  IF ~s.isDialogVisible_ THEN s
  ELSE hideDetach(hideAnimate(hideDispose(hideUnbind(s)), opt_animate))

\* content.getElementsByClassName('addHideHandler'): the live collection
\* of the elements of content that carry the class now, in document order.
markedButtons(s, content) ==
  SelectSeq(ButtonsOf(content),
            LAMBDA b : b \in AutoHideOf(content) /\ b \in s.addHideHandler)

\* The loop that wires the elements of class 'addHideHandler' in content:
\* while the collection has a first element, that element gets its two
\* listeners and loses the class.
RECURSIVE wireHideHandlers(_, _)

\* wireHideHandlers as it would be if the elements kept the class.
wireHideHandlersKeepClass(s, content) ==
  LET buttons == markedButtons(s, content)
      Wire(t, b) == Note([t EXCEPT !.hideListeners = @ \cup {b}], "wire", b, 0)
  IN IF Len(buttons) = 0 THEN s
     ELSE IF Len(buttons) = 1 THEN Wire(s, buttons[1])
     ELSE Wire(Wire(s, buttons[1]), buttons[2])

wireHideHandlers(s, content) ==
  LET buttons == markedButtons(s, content)
  IN IF Len(buttons) = 0 THEN s
     ELSE LET button == buttons[1]
          IN wireHideHandlers(
               Note([s EXCEPT !.hideListeners = @ \cup {button},
                              !.addHideHandler = @ \ {button}],
                    "wire", button, 0),
               content)

applyStyle(s, style) ==
  [s EXCEPT !.dialog = [n \in DOMAIN @ |->
                          IF n \in DOMAIN style THEN style[n] ELSE @[n]]]

appendContent(s, content) ==
  Note([s EXCEPT !.dialog.children = Append(Without(@, content), content),
                 !.body = @ (-) SetToBag({content}),
                 !.hiddenContent = @ \ {content}], "attach", content, s.calls)

\* showForceHide as it would be if the dialog on screen were left alone.
showForceHideNever(s) == s

\* showForceHide as it would be if the forced hide used the default animation.
showForceHideAnimated(s) ==
  IF s.isDialogVisible_ THEN hideDialog(s, TRUE) ELSE s

\* showDialog: a dialog on screen is hidden first, without animation.
showForceHide(s) ==
  IF s.isDialogVisible_ THEN hideDialog(s, FALSE) ELSE s

\* showDialog: the flag, the origin and the dispose function are stored.
\* The call gets the next id.
showStore(s, origin, disposeFunc) ==
  [s EXCEPT !.calls = s.calls + 1,
            !.isDialogVisible_ = TRUE,
            !.dialogOrigin_ = origin,
            !.dialogDispose_ = IF disposeFunc = "null" THEN NoDispose
                               ELSE [fn |-> disposeFunc, id |-> s.calls + 1]]

\* showDialog: a modal dialog gets the backdrop and a header to drag it by.
showModal(s, modal) ==
  IF modal
  THEN [s EXCEPT !.shadow = [visibility |-> "visible",
                             opacity |-> ShadowOpacity, zIndex |-> ShadowZ],
                 !.dialog.children = Append(@, "dialogHeader"),
                 !.dialogMouseDownWrapper_ = "mousedown"]
  ELSE s

\* showAnimate as it would be if it tested animate alone.
showAnimateNoOriginCheck(s, content, origin, animate) ==
  IF animate
  THEN setTimeout(matchBorder_(matchBorder_(s, origin, FALSE, 2),
                               "dialog", TRUE, 8),
                  Timer("showEnd", content, s.calls, ShowDelay))
  ELSE showEndResult(s, content)

\* showAnimate as it would be if the final state were set at once as well.
showAnimateEager(s, content, origin, animate) ==
  IF animate /\ origin # NullElem
  THEN setTimeout(showEndResult(matchBorder_(matchBorder_(s, origin, FALSE, 2),
                                             "dialog", TRUE, 8), content),
                  Timer("showEnd", content, s.calls, ShowDelay))
  ELSE showEndResult(s, content)

\* showDialog: the final state is set now or, when animating from the
\* origin, 175ms later.
showAnimate(s, content, origin, animate) ==
  IF animate /\ origin # NullElem
  THEN setTimeout(matchBorder_(matchBorder_(s, origin, FALSE, 2),
                               "dialog", TRUE, 8),
                  Timer("showEnd", content, s.calls, ShowDelay))
  ELSE showEndResult(s, content)

\* showDialog as it would be if the content were checked after the forced hide.
showDialogLateCheck(s, content, origin, animate, modal, style, disposeFunc) ==
  LET s1 == showForceHide(wireHideHandlers(s, content))
  IN IF content = NullElem THEN Note(s1, "throw", "TypeError", 0)
     ELSE LET s2 == applyStyle(showStore(s1, origin, disposeFunc), style)
              s3 == Blur(appendContent(showModal(s2, modal), content), origin)
          IN showAnimate(s3, content, origin, animate)

showDialog(s, content, origin, animate, modal, style, disposeFunc) ==
  IF content = NullElem THEN Note(s, "throw", "TypeError", 0)
  ELSE LET s1 == showForceHide(wireHideHandlers(s, content))
           s2 == applyStyle(showStore(s1, origin, disposeFunc), style)
           s3 == Blur(appendContent(showModal(s2, modal), content), origin)
       IN showAnimate(s3, content, origin, animate)

\* ---------------------------------------------------------------- dragging
\* A mouse event: e.right is Blockly.utils.isRightButton(e).
MouseEvent(right, x, y) == [right |-> right, clientX |-> x, clientY |-> y]

\* dialogMouseDown_, after the unbind and the right-button check: the offset
\* is recorded and the two document-level listeners are bound.
dragStart(s, e) ==
  LET s1 == [s EXCEPT !.dialogStartX_ = s.dialog.left - e.clientX,
                      !.dialogStartY_ = s.dialog.top - e.clientY]
      s2 == Note([s1 EXCEPT !.dialogMouseUpWrapper_ = "mouseup"],
                 "bind", "mouseup", 0)
      s3 == Note([s2 EXCEPT !.dialogMouseMoveWrapper_ = "mousemove"],
                 "bind", "mousemove", 0)
  IN Note(s3, "stopPropagation", "mousedown", 0)

\* dialogMouseDown_ as it would be if the button were tested first.
dialogMouseDown_RightFirst(s, e) ==
  IF e.right THEN s ELSE dragStart(dialogUnbindDragEvents_(s), e)

\* dialogMouseDown_ as it would be without the unbind step.
dialogMouseDown_NoUnbind(s, e) ==
  IF e.right THEN dialogUnbindDragEvents_(s) ELSE dragStart(s, e)

dialogMouseDown_(s, e) ==
  LET s1 == dialogUnbindDragEvents_(s)
  IN IF e.right THEN s1 ELSE dragStart(s1, e)

\* dialogMouseMove_ as it would be without the lower clamps.
dialogMouseMove_NoMax(s, e) ==
  LET dialogLeft0 == s.dialogStartX_ + e.clientX
      dialogTop0 == s.dialogStartY_ + e.clientY
      dialogTop == Min(dialogTop0, s.window.innerHeight - s.dialog.height)
      dialogLeft == Min(dialogLeft0, s.window.innerWidth - s.dialog.width)
  IN [s EXCEPT !.dialog.left = dialogLeft, !.dialog.top = dialogTop]

\* dialogMouseMove_ as it would be if the top were clamped by the width.
dialogMouseMove_WidthForTop(s, e) ==
  LET dialogLeft0 == s.dialogStartX_ + e.clientX
      dialogTop0 == s.dialogStartY_ + e.clientY
      dialogTop1 == Max(dialogTop0, 0)
      dialogTop == Min(dialogTop1, s.window.innerWidth - s.dialog.width)
      dialogLeft1 == Max(dialogLeft0, 0)
      dialogLeft == Min(dialogLeft1, s.window.innerWidth - s.dialog.width)
  IN [s EXCEPT !.dialog.left = dialogLeft, !.dialog.top = dialogTop]

\* offsetWidth and offsetHeight of the dialog are its style width and height.
dialogMouseMove_(s, e) ==
  LET dialogLeft0 == s.dialogStartX_ + e.clientX
      dialogTop0 == s.dialogStartY_ + e.clientY
      dialogTop1 == Max(dialogTop0, 0)
      dialogTop == Min(dialogTop1, s.window.innerHeight - s.dialog.height)
      dialogLeft1 == Max(dialogLeft0, 0)
      dialogLeft == Min(dialogLeft1, s.window.innerWidth - s.dialog.width)
  IN [s EXCEPT !.dialog.left = dialogLeft, !.dialog.top = dialogTop]

\* ------------------------------------------------------- pre-built dialogs
StorageStyle == [n \in {"width", "left", "top"} |-> 1]
AbortStyle == [n \in {"width", "left", "top"} |-> IF n = "top" THEN 0 ELSE 1]
\* Messages as the sequence of their lines (message.split).
Messages == {<<"m1", "m2">>}

storageAlert(s, origin, message) ==
  LET s1 == [s EXCEPT !.containerStorage = message]
      s2 == showDialog(s1, "dialogStorage", origin, TRUE, TRUE, StorageStyle,
                       "stopDialogKeyDown")
  IN startDialogKeyDown(s2)

\* BlocklyInterface.indexPage: the browser leaves the page.
indexPage(s) == Note([s EXCEPT !.navigated = TRUE], "indexPage", "", 0)

\* abortOffer as it would be without the test of the level-complete flag.
abortOffer_NoLevelCheck(s) ==
  IF s.isDialogVisible_ \/ s.wsDragging
  THEN setTimeout(s, Timer("abortOffer", "", 0, AbortRetryDelay))
  ELSE LET s1 == [s EXCEPT !.okListeners = @ \cup {"abortOk"}]
           s2 == showDialog(s1, "dialogAbort", NullElem, FALSE, TRUE,
                            AbortStyle, "abortDispose")
       IN addKeyDown(s2, "abortKeyDown_")

\* abortOffer as it would be if it only waited for a workspace drag to end.
abortOffer_NoVisibleCheck(s) ==
  IF s.levelDone THEN s
  ELSE IF s.wsDragging
  THEN setTimeout(s, Timer("abortOffer", "", 0, AbortRetryDelay))
  ELSE LET s1 == [s EXCEPT !.okListeners = @ \cup {"abortOk"}]
           s2 == showDialog(s1, "dialogAbort", NullElem, FALSE, TRUE,
                            AbortStyle, "abortDispose")
       IN addKeyDown(s2, "abortKeyDown_")

\* abortOffer as it would be if it set its timer after showing the dialog
\* as well.
abortOffer_RetryAfterShow(s) ==
  IF s.levelDone THEN s
  ELSE IF s.isDialogVisible_ \/ s.wsDragging
  THEN setTimeout(s, Timer("abortOffer", "", 0, AbortRetryDelay))
  ELSE LET s1 == [s EXCEPT !.okListeners = @ \cup {"abortOk"}]
           s2 == showDialog(s1, "dialogAbort", NullElem, FALSE, TRUE,
                            AbortStyle, "abortDispose")
       IN setTimeout(addKeyDown(s2, "abortKeyDown_"),
                     Timer("abortOffer", "", 0, AbortRetryDelay))

abortOffer(s) ==
  IF s.levelDone THEN s
  ELSE IF s.isDialogVisible_ \/ s.wsDragging
  THEN setTimeout(s, Timer("abortOffer", "", 0, AbortRetryDelay))
  ELSE LET s1 == [s EXCEPT !.okListeners = @ \cup {"abortOk"}]
           s2 == showDialog(s1, "dialogAbort", NullElem, FALSE, TRUE,
                            AbortStyle, "abortDispose")
       IN addKeyDown(s2, "abortKeyDown_")

\* dialogKeyDown as it would be if it hid the dialog without animation.
dialogKeyDown_NoAnimate(s, keyCode) ==
  IF s.isDialogVisible_
  THEN IF keyCode = KeyEnter \/ keyCode = KeyEscape \/ keyCode = KeySpace
       THEN Note(hideDialog(s, FALSE), "consume", "keydown", keyCode)
       ELSE s
  ELSE s

dialogKeyDown(s, keyCode) ==
  IF s.isDialogVisible_
  THEN IF keyCode = KeyEnter \/ keyCode = KeyEscape \/ keyCode = KeySpace
       THEN Note(hideDialog(s, TRUE), "consume", "keydown", keyCode)
       ELSE s
  ELSE s

\* abortKeyDown_ as it would be if Escape navigated as well.
abortKeyDown_EscapeToo(s, keyCode) ==
  LET s1 == dialogKeyDown(s, keyCode)
  IN IF keyCode = KeyEnter \/ keyCode = KeySpace \/ keyCode = KeyEscape
     THEN indexPage(s1) ELSE s1

abortKeyDown_(s, keyCode) ==
  LET s1 == dialogKeyDown(s, keyCode)
  IN IF keyCode = KeyEnter \/ keyCode = KeySpace THEN indexPage(s1) ELSE s1

\* One keydown listener of the body.
runKeyListener(s, f, keyCode) ==
  IF f = "dialogKeyDown" THEN dialogKeyDown(s, keyCode)
  ELSE abortKeyDown_(s, keyCode)

\* Dispatch of a keydown event: the listeners present when the dispatch
\* starts run in order; one removed by an earlier listener is skipped.
RECURSIVE dispatchKeyDown(_, _, _)
dispatchKeyDown(s, listeners, keyCode) ==
  IF Len(listeners) = 0 THEN s
  ELSE LET f == Head(listeners)
           s1 == IF InSeq(f, s.keydown) THEN runKeyListener(s, f, keyCode)
                 ELSE s
       IN dispatchKeyDown(s1, Tail(listeners), keyCode)

\* The timer callbacks.
runTimer(s, t) ==
  CASE t.kind = "showEnd" -> showEndResult(s, t.c)
    [] t.kind = "hideEnd" -> hideEndResult(s)
    [] t.kind = "abortOffer" -> abortOffer(s)
    [] OTHER -> s

\* Timer i may fire when no timer set earlier is due before it.
canFire(q, i) == \A j \in 1..(i - 1) : q[j].delay > q[i].delay
dropTimer(q, i) == [j \in 1..(Len(q) - 1) |-> IF j < i THEN q[j] ELSE q[j + 1]]

\* --------------------------------------------------------- the turtle field
PATTERNS == <<"Dots", "Stripes", "Hexagons">>
HATS == <<"Stovepipe", "Crown", "Propeller", "Mask", "Fedora">>
NAMES == <<"Yertle", "Franklin", "Crush", "Leonardo", "Bowser", "Squirtle",
           "Oogway">>

\* JavaScript's undefined and null; x == undefined holds of both, and the
\* falsy values of a part are these and the empty string.
Undefined == "undefined"
Null == "null"
IsUndefined(x) == x \in {Undefined, Null}
Truthy(x) == x \notin {Undefined, Null, ""}

\* Array.prototype.indexOf, the arrays indexed from 0 as in the source.
indexOf(array, x) ==
  IF \E i \in 1..Len(array) : array[i] = x
  THEN (CHOOSE i \in 1..Len(array) :
          array[i] = x /\ \A j \in 1..(i - 1) : array[j] # x) - 1
  ELSE -1
At(array, i) == array[i + 1]

TurtleValue(pattern, hat, turtleName) ==
  [pattern |-> pattern, hat |-> hat, turtleName |-> turtleName]
\* A value of the field that is not there: value_ null, displayValue_
\* undefined.  Reading a part of it through 'x && x.part' gives undefined.
NoValue == TurtleValue(Undefined, Undefined, Undefined)
OptionsOf(variable) ==
  CASE variable = "pattern" -> PATTERNS
    [] variable = "hat" -> HATS
    [] OTHER -> NAMES

\* The field as a record, so that a method is an operator on fields.
Field ==
  [value_ |-> value_,
   displayValue_ |-> displayValue_,
   isValueInvalid_ |-> isValueInvalid_,
   cachedValidatedValue_ |-> cachedValidatedValue_,
   editor_ |-> editor_,
   editorListeners_ |-> editorListeners_,
   boundListeners |-> boundListeners,
   dropDownOpen |-> dropDownOpen,
   returned |-> returned]

\* validatedPart as it would be if an option were not looked up in the list.
validatedPart_NoLookup(f, newValue, variable) ==
  IF IsUndefined(newValue[variable]) THEN f.displayValue_[variable]
  ELSE newValue[variable]

\* validatedPart as it would be if an omitted part took the first option.
validatedPart_Default(f, newValue, variable) ==
  IF IsUndefined(newValue[variable]) THEN At(OptionsOf(variable), 0)
  ELSE IF indexOf(OptionsOf(variable), newValue[variable]) = -1 THEN Null
  ELSE newValue[variable]

\* validatedPart as it would be if an omitted part took the committed part.
validatedPart_FromCommitted(f, newValue, variable) ==
  IF IsUndefined(newValue[variable]) THEN f.value_[variable]
  ELSE IF indexOf(OptionsOf(variable), newValue[variable]) = -1 THEN Null
  ELSE newValue[variable]

\* One part of newValue as doClassValidation_ leaves it.
validatedPart(f, newValue, variable) ==
  IF IsUndefined(newValue[variable]) THEN f.displayValue_[variable]
  ELSE IF indexOf(OptionsOf(variable), newValue[variable]) = -1 THEN Null
  ELSE newValue[variable]

\* doClassValidation_ changes newValue in place: the object it caches (and
\* returns, unless it returns null) is the object it was given.
validated(f, newValue) ==
  [variable \in {"pattern", "hat", "turtleName"} |->
     validatedPart(f, newValue, variable)]

\* The field after doClassValidation_(newValue); returned tells whether the
\* call returned the value ("value") or null.
doClassValidation_(f, newValue) ==
  LET v == validated(f, newValue)
  IN [f EXCEPT !.cachedValidatedValue_ = v,
               !.returned = IF ~Truthy(v.pattern) \/ ~Truthy(v.hat)
                               \/ ~Truthy(v.turtleName)
                            THEN Null ELSE "value"]

doValueUpdate_(f, newValue) ==
  [f EXCEPT !.value_ = newValue,
            !.displayValue_ = newValue,
            !.isValueInvalid_ = FALSE]

\* doValueInvalid_ as it would be if it were the no-op of the parent class.
doValueInvalid_NoOp(f, invalidValue) == f

doValueInvalid_(f, invalidValue) ==
  [f EXCEPT !.displayValue_ = invalidValue,
            !.isValueInvalid_ = TRUE]

\* Blockly.Field.setValue for a field without a local validator: the class
\* validator runs; on null the (changed) new value is handed to
\* doValueInvalid_, otherwise the validated value to doValueUpdate_.
setValue(f, newValue) ==
  LET f1 == doClassValidation_(f, newValue)
  IN IF f1.returned = Null
     THEN doValueInvalid_(f1, f1.cachedValidatedValue_)
     ELSE doValueUpdate_(f1, f1.cachedValidatedValue_)

\* The constructor: omitted (falsy) arguments take the first option, and
\* the parent constructor sets the value.
FieldTurtle(opt_pattern, opt_hat, opt_turtleName) ==
  LET value == TurtleValue(
                 IF Truthy(opt_pattern) THEN opt_pattern ELSE At(PATTERNS, 0),
                 IF Truthy(opt_hat) THEN opt_hat ELSE At(HATS, 0),
                 IF Truthy(opt_turtleName) THEN opt_turtleName
                 ELSE At(NAMES, 0))
  IN setValue([value_ |-> NoValue,
               displayValue_ |-> NoValue,
               isValueInvalid_ |-> FALSE,
               cachedValidatedValue_ |-> NoValue,
               editor_ |-> 0,
               editorListeners_ |-> <<>>,
               boundListeners |-> {},
               dropDownOpen |-> FALSE,
               returned |-> "value"], value)

\* arrowListener as it would be if the index stopped at the ends of the list.
arrowListener_NoWrap(f, variable, direction) ==
  LET array == OptionsOf(variable)
      index0 == indexOf(array, f.displayValue_[variable]) + direction
      currentIndex == IF index0 <= -1 THEN 0
                      ELSE IF index0 >= Len(array) THEN Len(array) - 1
                      ELSE index0
  IN setValue(f, [NoValue EXCEPT ![variable] = At(array, currentIndex)])

\* The listener that createArrowListener(variable, array, direction) makes.
arrowListener(f, variable, direction) ==
  LET array == OptionsOf(variable)
      index0 == indexOf(array, f.displayValue_[variable]) + direction
      currentIndex == IF index0 <= -1 THEN Len(array) - 1
                      ELSE IF index0 >= Len(array) THEN 0
                      ELSE index0
  IN setValue(f, [NoValue EXCEPT ![variable] = At(array, currentIndex)])

\* The same arrow pressed n times.
RECURSIVE arrowTimes(_, _, _, _)
arrowTimes(f, variable, direction, n) ==
  IF n = 0 THEN f
  ELSE arrowTimes(arrowListener(f, variable, direction), variable,
                  direction, n - 1)

\* The listener of the randomize button; i, j and k are the indices that
\* Math.floor(Math.random() * length) gives.
randomizeListener(f, i, j, k) ==
  setValue(f, TurtleValue(At(PATTERNS, i), At(HATS, j), At(NAMES, k)))

\* A field element of the XML: its attributes 'pattern' and 'hat' (null
\* when absent) and its text content.
toXml(f) ==
  [pattern |-> f.value_.pattern, hat |-> f.value_.hat,
   textContent |-> f.value_.turtleName]
\* fromXml as it would be if the name were read from an attribute
\* 'turtleName', which toXml does not write.
fromXml_NameAttribute(f, fieldElement) ==
  setValue(f, TurtleValue(fieldElement.pattern, fieldElement.hat, Null))

fromXml(f, fieldElement) ==
  setValue(f, TurtleValue(fieldElement.pattern, fieldElement.hat,
                          fieldElement.textContent))

\* A listener bound by Blockly.browserEvents.bind: the button of editor
\* widget number 'editor' it is bound to.
Binding(variable, direction, editor) ==
  [variable |-> variable, direction |-> direction, editor |-> editor]

\* dropdownCreate_ makes a widget and binds and tracks its seven listeners.
dropdownCreate_(f) ==
  LET editor == f.editor_ + 1
      made == <<Binding("pattern", -1, editor), Binding("pattern", 1, editor),
                Binding("hat", -1, editor), Binding("hat", 1, editor),
                Binding("turtleName", -1, editor),
                Binding("turtleName", 1, editor),
                Binding("randomize", 0, editor)>>
  IN [f EXCEPT !.editor_ = editor,
               !.editorListeners_ = @ \o made,
               !.boundListeners = @ \cup {made[i] : i \in 1..Len(made)}]

\* showEditor_: the widget is made and the dropdown shown, with
\* dropdownDispose_ as the function to call when it closes.
showEditor_(f) == [dropdownCreate_(f) EXCEPT !.dropDownOpen = TRUE]

\* The loop of dropdownDispose_ from index i on (indices from 0): it goes
\* on while editorListeners_[i] is a listener, and editorListeners_[i] is
\* undefined for i outside the array.
RECURSIVE disposeLoop(_, _)
disposeLoop(f, i) ==
  IF i >= 0 /\ i < Len(f.editorListeners_)
  THEN disposeLoop(
         [f EXCEPT !.boundListeners = @ \ {At(f.editorListeners_, i)},
                   !.editorListeners_ = SubSeq(@, 1, Len(@) - 1)],
         i - 1)
  ELSE f

\* dropdownDispose_: the loop starts at index editorListeners_.length.
dropdownDispose_(f) == disposeLoop(f, Len(f.editorListeners_))

\* Blockly.DropDownDiv closes the dropdown and calls the dispose function.
hideDropDown(f) == [dropdownDispose_(f) EXCEPT !.dropDownOpen = FALSE]

\* The field of the model is constructed with a hat and otherwise defaults.
TurtleInit ==
  \E f \in {FieldTurtle(Undefined, "Crown", Undefined)} :
    /\ value_ = f.value_
    /\ displayValue_ = f.displayValue_
    /\ isValueInvalid_ = f.isValueInvalid_
    /\ cachedValidatedValue_ = f.cachedValidatedValue_
    /\ editor_ = f.editor_
    /\ editorListeners_ = f.editorListeners_
    /\ boundListeners = f.boundListeners
    /\ dropDownOpen = f.dropDownOpen
    /\ returned = f.returned
    /\ turtleOp = [op |-> "new", variable |-> "", direction |-> 0,
                   value |-> NoValue]

\* ----------------------------------------------------------------- actions
\* The last handler that ran: its name, the content or element it was given,
\* its animate argument and the pointer position or key or timer id.
Op(op, content, animate, x, y) ==
  [op |-> op, content |-> content, animate |-> animate, x |-> x, y |-> y]
NoOp == Op("init", NullElem, FALSE, 0, 0)

\* The page is still loaded and the observers' bounds are respected.
Within(t) ==
  /\ ~navigated
  /\ t.calls <= MaxCalls
  /\ Len(t.timers) <= MaxTimers

\* Where the drag in progress started: the dialog's position and the pointer
\* position of the mouse-down that started it.
NoDrag == [L |-> 0, T |-> 0, mx |-> 0, my |-> 0]

\* The handler's result becomes the next state.
Done(result, op) ==
  \E t \in {result} :
    /\ Within(t)
    /\ Commit(t)
    /\ lastOp' = op
    /\ dragFrom' = IF t.dialogMouseMoveWrapper_ = "null" THEN NoDrag
                   ELSE IF op.op = "mousedown"
                   THEN [L |-> dialog.left, T |-> dialog.top,
                         mx |-> op.x, my |-> op.y]
                   ELSE dragFrom
    /\ UNCHANGED turtleVars

Init ==
  /\ isDialogVisible_ = FALSE
  /\ dialogOrigin_ = NullElem
  /\ dialogDispose_ = NoDispose
  /\ dialogMouseDownWrapper_ = "null"
  /\ dialogMouseUpWrapper_ = "null"
  /\ dialogMouseMoveWrapper_ = "null"
  /\ dialogStartX_ = 0
  /\ dialogStartY_ = 0
  /\ dialog = [visibility |-> "hidden", zIndex |-> -1, left |-> 0, top |-> 0,
               width |-> 1, height |-> 1, children |-> <<>>]
  /\ shadow = [visibility |-> "hidden", opacity |-> 0, zIndex |-> -1]
  /\ border = [visibility |-> "hidden", className |-> ""]
  /\ body = EmptyBag
  /\ hiddenContent = AllContents
  /\ addHideHandler = AllAutoHide
  /\ hideListeners = {}
  /\ focused = "none"
  /\ timers = <<>>
  /\ keydown = <<>>
  /\ window \in [innerWidth : ViewWidths, innerHeight : ViewHeights]
  /\ okListeners = {}
  /\ containerStorage = <<>>
  /\ levelDone = FALSE
  /\ wsDragging = FALSE
  /\ navigated = FALSE
  /\ calls = 0
  /\ fired = [i \in 1..(MaxCalls + 1) |-> 0]
  /\ log = <<>>
  /\ lastOp = NoOp
  /\ dragFrom = NoDrag
  /\ TurtleInit

\* The calls of showDialog the model makes: of all combinations of the six
\* arguments, those in which every pair of argument values occurs (the
\* content and the style are fixed by the parity of the other arguments),
\* and the calls with a null content.
ShowArgs ==
  {a \in [content : ShowContents, origin : Origins, animate : BOOLEAN,
          modal : BOOLEAN, style : Styles, disposeFunc : DisposeFns] :
     /\ (a.content = "c1") <=> (a.modal <=> a.disposeFunc \in {"null", "reHide"})
     /\ (a.style = EmptyStyle) <=> (a.modal <=> a.origin = NullElem)}
NullArgs ==
  [content : {NullElem}, origin : Origins, animate : {TRUE}, modal : {TRUE},
   style : {BoxStyle}, disposeFunc : {"plain"}]

ShowDialog ==
  \E a \in ShowArgs \cup NullArgs :
    /\ Done(showDialog(St, a.content, a.origin, a.animate, a.modal, a.style,
                       a.disposeFunc),
            Op("showDialog", a.content, a.animate, 0, 0))

HideDialog ==
  \E opt_animate \in BOOLEAN :
    /\ Done(hideDialog(St, opt_animate),
            Op("hideDialog", NullElem, opt_animate, 0, 0))

\* A click or touchend on a wired button of the content on screen: the
\* listener is hideDialog itself, so opt_animate is the (truthy) event.
HideClick ==
  \E c \in AllContents, b \in hideListeners :
    /\ InSeq(c, dialog.children)
    /\ b \in AutoHideOf(c)
    /\ Done(hideDialog(St, TRUE),
            Op("hideClick", c, TRUE, 0, 0))

FireTimer ==
  \E i \in 1..Len(timers) :
    /\ canFire(timers, i)
    /\ Done(runTimer([St EXCEPT !.timers = dropTimer(timers, i)], timers[i]),
            Op(timers[i].kind, timers[i].c, FALSE, timers[i].id, 0))

\* A mouse-down on the header: the header that carries the listener is in
\* the dialog container.
MouseDownOver(points) ==
  \E right \in BOOLEAN, p \in points :
    /\ dialogMouseDownWrapper_ # "null"
    /\ InSeq("dialogHeader", dialog.children)
    /\ Done(dialogMouseDown_(St, MouseEvent(right, p[1], p[2])),
            Op("mousedown", NullElem, right, p[1], p[2]))

MouseMoveOver(points) ==
  \E p \in points :
    /\ dialogMouseMoveWrapper_ # "null"
    /\ Done(dialogMouseMove_(St, MouseEvent(FALSE, p[1], p[2])),
            Op("mousemove", NullElem, FALSE, p[1], p[2]))

MouseUp ==
  /\ dialogMouseUpWrapper_ # "null"
  /\ Done(dialogUnbindDragEvents_(St),
          Op("mouseup", NullElem, FALSE, 0, 0))

KeyDown ==
  \E keyCode \in Keys :
    /\ Len(keydown) > 0
    /\ Done(dispatchKeyDown(St, keydown, keyCode),
            Op("keydown", NullElem, FALSE, keyCode, 0))

StorageAlert ==
  \E origin \in Origins, message \in Messages :
    /\ Done(storageAlert(St, origin, message),
            Op("storageAlert", "dialogStorage", TRUE, 0, 0))

AbortOffer ==
  /\ Done(abortOffer(St),
          Op("abortOffer", "dialogAbort", FALSE, 0, 0))

\* A click or touchend on the abort dialog's OK button once abortOffer has
\* wired it to BlocklyInterface.indexPage.
AbortOkClick ==
  /\ "abortOk" \in okListeners
  /\ InSeq("dialogAbort", dialog.children)
  /\ Done(indexPage(St),
          Op("abortOkClick", "dialogAbort", FALSE, 0, 0))

\* The environment: the level is solved; a workspace drag starts or ends.
Environment ==
  /\ \E done \in BOOLEAN, dragging \in BOOLEAN :
       /\ done \/ ~levelDone
       /\ <<done, dragging>> # <<levelDone, wsDragging>>
       /\ Done([St EXCEPT !.levelDone = done, !.wsDragging = dragging],
               Op("environment", NullElem, FALSE, 0, 0))

\* In Spec the pointer stays at one point; SpecDrag moves it over the grid.
MousePoints == {<<1, 1>>}
MouseDown == MouseDownOver(MousePoints)
MouseMove == MouseMoveOver(MousePoints)

Next ==
  \/ ShowDialog
  \/ HideDialog
  \/ HideClick
  \/ FireTimer
  \/ MouseDown
  \/ MouseMove
  \/ MouseUp
  \/ KeyDown
  \/ StorageAlert

Spec == Init /\ [][Next]_vars

\* ------------------------------------------------- dragging a modal dialog
\* A modal dialog is shown at any position of the grid, in a size that fits
\* the viewport or exceeds it, and dragged with the pointer anywhere.
DragPoints == Coords \X Coords
DragStyles ==
  {[n \in {"left", "top", "width", "height"} |->
      CASE n = "left" -> p[1] [] n = "top" -> p[2]
        [] n = "width" -> sz[1] [] OTHER -> sz[2]] :
     p \in {<<0, MaxCoord>>, <<MaxCoord, 1>>},
     sz \in {<<1, 2>>, <<MaxCoord + 1, 1>>, <<1, MaxCoord + 2>>}}

DragShow ==
  \E style \in DragStyles :
    Done(showDialog(St, "c1", NullElem, FALSE, TRUE, style, "null"),
         Op("showDialog", "c1", FALSE, 0, 0))
DragMouseDown == MouseDownOver(DragPoints)
DragMouseMove == MouseMoveOver(DragPoints)

NextDrag ==
  \/ DragShow
  \/ HideDialog
  \/ DragMouseDown
  \/ DragMouseMove
  \/ MouseUp

SpecDrag == Init /\ [][NextDrag]_vars

\* ------------------------------------------- the abort offer and the keys
\* The page offers to abort while other dialogs come and go: a non-modal
\* dialog animated from an origin, a modal one shown at once, the storage
\* alert; the level gets solved and the workspace is dragged.
OtherShowArgs ==
  {[content |-> "c1", origin |-> "o1", animate |-> TRUE, modal |-> FALSE,
    style |-> EmptyStyle, disposeFunc |-> "plain"],
   [content |-> "c2", origin |-> NullElem, animate |-> FALSE, modal |-> TRUE,
    style |-> BoxStyle, disposeFunc |-> "null"]}

ShowOther ==
  \E a \in OtherShowArgs :
    Done(showDialog(St, a.content, a.origin, a.animate, a.modal, a.style,
                    a.disposeFunc),
         Op("showDialog", a.content, a.animate, 0, 0))

NextAbort ==
  \/ ShowOther
  \/ HideDialog
  \/ HideClick
  \/ FireTimer
  \/ KeyDown
  \/ StorageAlert
  \/ AbortOffer
  \/ AbortOkClick
  \/ Environment

SpecAbort == Init /\ [][NextAbort]_vars

\* The retries of abortOffer: the page shows and hides other dialogs and
\* offers to abort, leaving room within the bound of the calls for every
\* pending retry to show its dialog; the timers of the browser fire.
PendingRetries ==
  Cardinality({i \in 1..Len(timers) : timers[i].kind = "abortOffer"})
RetryShowOther == calls + PendingRetries < MaxCalls /\ ShowOther
RetryAbortOffer == calls + PendingRetries < MaxCalls /\ AbortOffer

NextRetry ==
  \/ RetryShowOther
  \/ RetryAbortOffer
  \/ HideDialog
  \/ FireTimer
  \/ Environment

SpecRetry == Init /\ [][NextRetry]_vars /\ WF_vars(FireTimer)

\* The page also starts and stops the dialog key listener by itself.
StartDialogKeyDown ==
  Done(startDialogKeyDown(St), Op("startDialogKeyDown", NullElem, FALSE, 0, 0))

StopDialogKeyDown ==
  /\ InSeq("dialogKeyDown", keydown)
  /\ Done(stopDialogKeyDown(St), Op("stopDialogKeyDown", NullElem, FALSE, 0, 0))

NextKeys ==
  \/ ShowOther
  \/ HideDialog
  \/ FireTimer
  \/ KeyDown
  \/ StorageAlert
  \/ AbortOffer
  \/ StartDialogKeyDown
  \/ StopDialogKeyDown

SpecKeys == Init /\ [][NextKeys]_vars

\* ------------------------------------------------- using the turtle field
TurtleOp(op, variable, direction, value) ==
  [op |-> op, variable |-> variable, direction |-> direction, value |-> value]

\* The method's result becomes the next state of the field.
TurtleDone(f, op) ==
  /\ value_' = f.value_
  /\ displayValue_' = f.displayValue_
  /\ isValueInvalid_' = f.isValueInvalid_
  /\ cachedValidatedValue_' = f.cachedValidatedValue_
  /\ editor_' = f.editor_
  /\ editorListeners_' = f.editorListeners_
  /\ boundListeners' = f.boundListeners
  /\ dropDownOpen' = f.dropDownOpen
  /\ returned' = f.returned
  /\ turtleOp' = op
  /\ UNCHANGED dialogVars

\* Values given to setValue: every choice of parts supplied (an option) or
\* omitted, and values with parts that are no option.
SetValueArgs ==
  {TurtleValue(p, h, n) : p \in {Undefined, "Stripes"},
                          h \in {Undefined, "Fedora"},
                          n \in {Undefined, "Crush"}}
  \cup {TurtleValue("Plaid", Undefined, Undefined),
        TurtleValue(Undefined, "Bowler", Undefined),
        TurtleValue(Undefined, Undefined, ""),
        TurtleValue("Plaid", "Fedora", Undefined),
        TurtleValue(Undefined, "Bowler", "Crush"),
        TurtleValue("Stripes", Undefined, ""),
        TurtleValue("Plaid", "Bowler", "")}
\* Field elements given to fromXml: attributes absent, right or wrong.
XmlElements ==
  {[pattern |-> Null, hat |-> Null, textContent |-> ""],
   [pattern |-> "Hexagons", hat |-> "Mask", textContent |-> "Oogway"],
   [pattern |-> "dots", hat |-> Null, textContent |-> "Oogway"],
   [pattern |-> "Hexagons", hat |-> Null, textContent |-> ""]}
\* The indices the randomize button draws.
RandomDraws == {<<0, 0, 0>>, <<2, 4, 6>>}

SetValue ==
  \E newValue \in SetValueArgs :
    TurtleDone(setValue(Field, newValue), TurtleOp("setValue", "", 0, newValue))

FromXml ==
  \E e \in XmlElements :
    TurtleDone(fromXml(Field, e),
               TurtleOp("fromXml", "", 0,
                        TurtleValue(e.pattern, e.hat, e.textContent)))

\* Fields of other blocks, whose values are saved to XML.
SavedFields ==
  {FieldTurtle(p, h, n) : p \in {"Stripes", "Hexagons"},
                          h \in {Undefined, "Mask"},
                          n \in {"Leonardo", "Oogway"}}

\* The field loads the element that toXml of another field has written.
ToXmlFromXml ==
  \E source \in SavedFields :
    LET e == toXml(source)
    IN TurtleDone(fromXml(Field, e),
                  TurtleOp("toXml,fromXml", "", 0,
                           TurtleValue(e.pattern, e.hat, e.textContent)))

\* A click on the field shows the editor; the dropdown is closed then.
ShowEditor ==
  /\ ~dropDownOpen
  /\ editor_ < MaxEditors
  /\ TurtleDone(showEditor_(Field), TurtleOp("showEditor_", "", 0, NoValue))

HideDropDown ==
  /\ dropDownOpen
  /\ TurtleDone(hideDropDown(Field), TurtleOp("dropdownDispose_", "", 0, NoValue))

\* A mouse-up on an arrow of the editor on screen.
ArrowClick ==
  \E variable \in {"pattern", "hat", "turtleName"}, direction \in {-1, 1} :
    /\ dropDownOpen
    /\ Binding(variable, direction, editor_) \in boundListeners
    /\ TurtleDone(arrowListener(Field, variable, direction),
                  TurtleOp("arrow", variable, direction, NoValue))

RandomizeClick ==
  \E d \in RandomDraws :
    /\ dropDownOpen
    /\ Binding("randomize", 0, editor_) \in boundListeners
    /\ TurtleDone(randomizeListener(Field, d[1], d[2], d[3]),
                  TurtleOp("randomize", "", 0, NoValue))

\* The value of the field is set by the program, from XML and in the
\* editor, which is opened and stays open.
NextTurtle ==
  \/ SetValue
  \/ FromXml
  \/ ToXmlFromXml
  \/ ShowEditor
  \/ ArrowClick
  \/ RandomizeClick

SpecTurtle == Init /\ [][NextTurtle]_vars

\* The editor is opened, used and closed, again and again.
NextEditor ==
  \/ ShowEditor
  \/ HideDropDown
  \/ ArrowClick
  \/ RandomizeClick

SpecEditor == Init /\ [][NextEditor]_vars

\* ------------------------------------------------------------- properties
\* The handlers that call showDialog with a content from the page.
IsShow(op) == op.op \in {"showDialog", "storageAlert"} /\ op.content # NullElem
Contents(children) ==
  {children[i] : i \in {j \in 1..Len(children) : children[j] # "dialogHeader"}}
Headers(children) == {i \in 1..Len(children) : children[i] = "dialogHeader"}
LogAt(e, c, id) == {i \in 1..Len(log) : log[i] = Ev(e, c, id)}
LogOf(e) == {i \in 1..Len(log) : log[i].e = e}

\* C1: showDialog with a null content throws before it changes anything:
\* every program variable keeps its value (flag, origin, dispose function,
\* container, backdrop, header, listeners, auto-hide wiring), and no dispose
\* function is called.
C1_NullContentThrows ==
  [][(lastOp'.op = "showDialog" /\ lastOp'.content = NullElem)
       => /\ UNCHANGED progVars
          /\ UNCHANGED <<fired, calls>>
          /\ log' = <<Ev("throw", "TypeError", 0)>>]_vars

\* A call with null content was made while a dialog with a dispose function
\* and unwired auto-hide buttons elsewhere was on screen.
C1_Witness ==
  /\ lastOp.op = "showDialog" /\ lastOp.content = NullElem
  /\ log = <<Ev("throw", "TypeError", 0)>>
  /\ isDialogVisible_ /\ dialogDispose_.fn # "null"
  /\ Len(dialog.children) > 0

\* C2: between handlers the dialog container holds the content of at most
\* one showDialog call and at most one header.
C2_AtMostOneDialog ==
  /\ Cardinality(Contents(dialog.children)) <= 1
  /\ Cardinality(Headers(dialog.children)) <= 1
  /\ Len(dialog.children) <= 2

\* A second showDialog replaced the content of the first, which is back at
\* the body.
C2_Witness ==
  /\ calls >= 2 /\ isDialogVisible_
  /\ Len(dialog.children) = 2
  /\ \E c \in ShowContents : BagIn(c, body) /\ ~InSeq(c, dialog.children)

\* C3: a showDialog made while a dialog with a dispose function is on screen
\* calls that function exactly once, and before the new content is attached:
\* the call, the detaching of the old content and the synchronous final
\* state of the hide all precede the attach, and no hide timer is set.
C3_ForcedHideBeforeAttach ==
  [][(IsShow(lastOp') /\ isDialogVisible_ /\ dialogDispose_.fn # "null")
       => LET id == dialogDispose_.id
              attached == {i \in 1..Len(log') :
                             log'[i] = Ev("attach", lastOp'.content, calls')}
              disposed == {i \in 1..Len(log') :
                             log'[i].e = "dispose" /\ log'[i].id = id}
          IN /\ Cardinality(attached) = 1
             /\ Cardinality(disposed) = 1
             /\ fired[id] = 0 /\ fired'[id] = 1
             /\ \A k \in attached :
                  /\ \A i \in disposed : i < k
                  /\ \A c \in Contents(dialog.children) :
                       \E j \in 1..(k - 1) : log'[j] = Ev("detach", c, 0)
                  /\ \E j \in 1..(k - 1) : log'[j].e = "hideEnd"
             /\ \A i \in 1..Len(log') :
                  ~(log'[i].e = "setTimeout" /\ log'[i].c = "hideEnd")]_vars

\* A second dialog was shown over a dialog that had a dispose function and
\* an origin to animate to.
C3_Witness ==
  /\ IsShow(lastOp) /\ calls >= 2
  /\ \E i \in LogOf("dispose"), j \in LogOf("detach"), k \in LogOf("attach") :
       i < j /\ j < k /\ log[k].id = calls /\ log[i].id < calls

\* C4: no dispose function is called twice, and none is stored while no
\* dialog is on screen.
C4_DisposeAtMostOnce ==
  /\ \A id \in DOMAIN fired : fired[id] <= 1
  /\ ~isDialogVisible_ => dialogDispose_ = NoDispose

\* A dispose function that itself calls hideDialog has run, once.
C4_Witness ==
  /\ ~isDialogVisible_
  /\ \E i \in LogOf("dispose") : log[i].c = "reHide" /\ fired[log[i].id] = 1

\* C5: hideDialog with no dialog on screen changes nothing and calls nothing.
C5_HideWhenHiddenIsNoOp ==
  [][(lastOp'.op = "hideDialog" /\ ~isDialogVisible_)
       => /\ UNCHANGED progVars
          /\ UNCHANGED <<fired, calls>>
          /\ log' = <<>>]_vars

\* hideDialog ran as a no-op after an earlier hide had called a dispose
\* function and left an origin to animate to.
C5_Witness ==
  /\ lastOp.op = "hideDialog" /\ log = <<>>
  /\ ~isDialogVisible_ /\ dialogOrigin_ # NullElem
  /\ \E id \in DOMAIN fired : fired[id] = 1

\* C6: when showDialog returns from a call with animate false or origin null,
\* the dialog is on screen: the flag is set, the content is in the container
\* without the hidden-content class, the container is visible and raised,
\* the border hidden, the focus applied, and no timer was set.
C6_SyncShow ==
  (IsShow(lastOp) /\ (~lastOp.animate \/ dialogOrigin_ = NullElem))
    => /\ isDialogVisible_
       /\ InSeq(lastOp.content, dialog.children)
       /\ lastOp.content \notin hiddenContent
       /\ dialog.visibility = "visible" /\ dialog.zIndex = DialogZ
       /\ border.visibility = "hidden"
       /\ focusTarget(lastOp.content) # "none"
            => focused = focusTarget(lastOp.content)
       /\ LogAt("showEnd", lastOp.content, 0) # {}
       /\ LogOf("setTimeout") = {}

\* showDialog returned from a call with animate true and origin null.
C6_Witness ==
  /\ IsShow(lastOp) /\ lastOp.animate /\ dialogOrigin_ = NullElem
  /\ isDialogVisible_ /\ dialog.visibility = "visible"
  /\ focused = focusTarget(lastOp.content)

C8_StaleShowStepIsNoOp ==
  [][(lastOp'.op = "showEnd" /\ (~isDialogVisible_ \/ lastOp'.x < calls))
       => UNCHANGED <<dialog, border, focused>>]_vars

\* C9: while a modal dialog is on screen its backdrop is visible and stacked
\* just below the dialog, whatever timers fire.
C9_ModalBackdropStays ==
  (isDialogVisible_ /\ InSeq("dialogHeader", dialog.children))
    => shadow.visibility = "visible" /\ shadow.zIndex = ShadowZ

\* C10: a mouse-move during a drag puts the dialog at the position it had at
\* the mouse-down, moved by the pointer's displacement and clamped to the
\* viewport, each axis by itself.
C10_DragPosition ==
  lastOp.op = "mousemove"
    => /\ dialog.left =
            Min(Max(dragFrom.L - dragFrom.mx + lastOp.x, 0),
                window.innerWidth - dialog.width)
       /\ dialog.top =
            Min(Max(dragFrom.T - dragFrom.my + lastOp.y, 0),
                window.innerHeight - dialog.height)

\* A drag moved the dialog right without reaching the edge of the viewport,
\* and down to the edge.
C10_Witness ==
  /\ lastOp.op = "mousemove"
  /\ dialog.left = dragFrom.L - dragFrom.mx + lastOp.x
  /\ dialog.left > dragFrom.L
  /\ dialog.top < dragFrom.T - dragFrom.my + lastOp.y
  /\ dialog.top = window.innerHeight - dialog.height

\* C11 (as stated): after every mouse-move of a drag the dialog lies within
\* the viewport on both axes, whatever the sizes of dialog and viewport.
C11_DragAlwaysWithinViewport ==
  lastOp.op = "mousemove"
    => /\ 0 <= dialog.left
       /\ dialog.left + dialog.width <= window.innerWidth
       /\ 0 <= dialog.top
       /\ dialog.top + dialog.height <= window.innerHeight

\* C11 (amended): after every mouse-move of a drag the right and bottom
\* edges of the dialog are within the viewport; the left (top) edge is
\* within it when the dialog is no wider (taller) than the viewport, and
\* otherwise the dialog is placed with its right (bottom) edge on the
\* viewport's, its left (top) edge outside.
C11_DragWithinViewportIfFits ==
  lastOp.op = "mousemove"
    => /\ dialog.left + dialog.width <= window.innerWidth
       /\ dialog.top + dialog.height <= window.innerHeight
       /\ dialog.width <= window.innerWidth => 0 <= dialog.left
       /\ dialog.height <= window.innerHeight => 0 <= dialog.top
       /\ dialog.width > window.innerWidth
            => dialog.left = window.innerWidth - dialog.width
       /\ dialog.height > window.innerHeight
            => dialog.top = window.innerHeight - dialog.height

\* A dialog that fits the viewport was dragged beyond the left edge and
\* stopped there.
C11_Witness ==
  /\ lastOp.op = "mousemove"
  /\ dialog.width <= window.innerWidth
  /\ dialog.height <= window.innerHeight
  /\ dragFrom.L - dragFrom.mx + lastOp.x < 0
  /\ dialog.left = 0

\* C12: a right-button mouse-down on the header leaves no document-level
\* listener bound (it unbinds a drag in progress), binds none, and changes
\* neither the recorded offset nor the dialog; and while no mouse-move
\* listener is bound the dialog's position changes only by a showDialog.
C12_RightButtonNeverStartsDrag ==
  [][/\ ((lastOp'.op = "mousedown" /\ lastOp'.animate)
           => (/\ dialogMouseUpWrapper_' = "null"
               /\ dialogMouseMoveWrapper_' = "null"
               /\ UNCHANGED <<dialogStartX_, dialogStartY_, dialog>>
               /\ \A i \in 1..Len(log') : log'[i].e = "unbind"))
      /\ ((/\ dialogMouseMoveWrapper_ = "null"
            /\ <<dialog'.left, dialog'.top>> # <<dialog.left, dialog.top>>)
           => IsShow(lastOp'))]_vars

\* A right-button mouse-down ended a drag that had moved the offset.
C12_Witness ==
  /\ lastOp.op = "mousedown" /\ lastOp.animate
  /\ log = <<Ev("unbind", "mouseup", 0), Ev("unbind", "mousemove", 0)>>
  /\ dialogMouseUpWrapper_ = "null" /\ dialogMouseMoveWrapper_ = "null"
  /\ isDialogVisible_ /\ dialogStartX_ # 0

\* C13: the mouse-up and mouse-move listeners are bound together or not at
\* all, and only while a modal dialog (flag set, header in the container,
\* mouse-down listener bound) is on screen; they become bound only by a
\* non-right mouse-down, which first unbinds a pair still bound, and they
\* are unbound after a mouse-up and after every hideDialog.
C13_DragBindings ==
  /\ [](/\ ((dialogMouseUpWrapper_ = "null")
               <=> (dialogMouseMoveWrapper_ = "null"))
         /\ (dialogMouseMoveWrapper_ # "null"
               => (/\ isDialogVisible_
                   /\ InSeq("dialogHeader", dialog.children)
                   /\ dialogMouseDownWrapper_ # "null")))
  /\ [][/\ ((/\ dialogMouseMoveWrapper_' # "null"
               /\ (dialogMouseMoveWrapper_ = "null" \/ LogOf("bind")' # {}))
              => (lastOp'.op = "mousedown" /\ ~lastOp'.animate))
         /\ ((/\ lastOp'.op = "mousedown" /\ ~lastOp'.animate
               /\ dialogMouseMoveWrapper_ # "null")
              => (\E i, j, k, l \in 1..Len(log') :
                    /\ log'[i] = Ev("unbind", "mouseup", 0)
                    /\ log'[j] = Ev("unbind", "mousemove", 0)
                    /\ log'[k] = Ev("bind", "mouseup", 0)
                    /\ log'[l] = Ev("bind", "mousemove", 0)
                    /\ i < k /\ j < l))
         /\ (lastOp'.op \in {"mouseup", "hideDialog", "hideClick"}
              => (/\ dialogMouseUpWrapper_' = "null"
                  /\ dialogMouseMoveWrapper_' = "null"))]_vars

\* A mouse-down during a drag replaced the pair of listeners of that drag.
C13_Witness ==
  /\ lastOp.op = "mousedown" /\ ~lastOp.animate
  /\ LogOf("unbind") # {} /\ LogOf("bind") # {}
  /\ dialogMouseUpWrapper_ # "null" /\ dialogMouseMoveWrapper_ # "null"

\* The program's variables but the timer queue, and the pending retries of
\* abortOffer.
nonTimerVars == <<isDialogVisible_, dialogOrigin_, dialogDispose_,
                  dialogMouseDownWrapper_, dialogMouseUpWrapper_,
                  dialogMouseMoveWrapper_, dialogStartX_, dialogStartY_,
                  dialog, shadow, border, body, hiddenContent, addHideHandler,
                  hideListeners, focused, keydown, window, okListeners,
                  containerStorage, levelDone, wsDragging, navigated>>
AbortRetry == Timer("abortOffer", "", 0, AbortRetryDelay)
Retries(q) == {i \in 1..Len(q) : q[i] = AbortRetry}
\* abortOffer ran as the callback of a retry (not as a call from the page).
IsRetry(op) == op.op = "abortOffer" /\ op.content = ""
IsHideKey(k) == k \in {KeyEnter, KeyEscape, KeySpace}

\* C14: abortOffer with the level-complete flag set changes nothing: no
\* dialog state, no listener, no effect; a call from the page leaves the
\* timers alone and a retry only leaves the queue, scheduling none.
C14_AbortOfferLevelDone ==
  [][(lastOp'.op = "abortOffer" /\ levelDone)
       => (/\ UNCHANGED nonTimerVars
           /\ UNCHANGED <<calls, fired>>
           /\ log' = <<>>
           /\ ~IsRetry(lastOp') => timers' = timers
           /\ IsRetry(lastOp')
                => \E i \in Retries(timers) : timers' = dropTimer(timers, i))]_vars

\* A retry found the level solved when nothing else kept it from showing
\* the dialog.
C14_Witness ==
  /\ IsRetry(lastOp) /\ levelDone /\ log = <<>>
  /\ ~isDialogVisible_ /\ ~wsDragging /\ okListeners = {}

\* C15: abortOffer with the level incomplete and a dialog on screen or the
\* workspace being dragged changes no dialog state and sets exactly one
\* timer, abortOffer in 15 s; the number of pending retries grows only by
\* a call from the page, and then by one.
C15_AbortOfferWaits ==
  [][/\ ((lastOp'.op = "abortOffer" /\ ~levelDone
           /\ (isDialogVisible_ \/ wsDragging))
          => (/\ UNCHANGED nonTimerVars
              /\ UNCHANGED <<calls, fired>>
              /\ log' = <<Ev("setTimeout", "abortOffer", 0)>>
              /\ ~IsRetry(lastOp') => timers' = Append(timers, AbortRetry)
              /\ IsRetry(lastOp')
                   => \E i \in Retries(timers) :
                        timers' = Append(dropTimer(timers, i), AbortRetry)))
      /\ (Cardinality(Retries(timers')) > Cardinality(Retries(timers))
          => (/\ lastOp'.op = "abortOffer" /\ ~IsRetry(lastOp')
              /\ Cardinality(Retries(timers'))
                   = Cardinality(Retries(timers)) + 1))]_vars

\* A retry found a dialog with a dispose function still on screen, the
\* workspace at rest, and was set again.
C15_Witness ==
  /\ IsRetry(lastOp) /\ ~levelDone /\ ~wsDragging
  /\ isDialogVisible_ /\ dialogDispose_.fn # "null"
  /\ log = <<Ev("setTimeout", "abortOffer", 0)>>
  /\ Cardinality(Retries(timers)) = 1

\* C16: with dialogKeyDown listening, a key-down of Enter, Escape or Space
\* while a dialog is on screen hides it as hideDialog(true) does (dispose
\* function called, contents detached, final state by timer when the dialog
\* has an origin) and consumes the event; a key-down of another key, or
\* with no dialog on screen, changes nothing and consumes nothing.
C16_DialogKeyDown ==
  [][(lastOp'.op = "keydown" /\ InSeq("dialogKeyDown", keydown))
       => (/\ (isDialogVisible_ /\ IsHideKey(lastOp'.x))
                => (/\ ~isDialogVisible_'
                    /\ dialog'.children = <<>>
                    /\ dialogDispose_' = NoDispose
                    /\ dialogDispose_.fn # "null"
                         => fired'[dialogDispose_.id] = 1
                    /\ \A c \in Contents(dialog.children) :
                         LogAt("detach", c, 0)' # {}
                    /\ IF dialogOrigin_ # NullElem
                       THEN LogAt("setTimeout", "hideEnd", 0)' # {}
                            /\ LogOf("hideEnd")' = {}
                       ELSE LogOf("hideEnd")' # {}
                    /\ Cardinality({i \in 1..Len(log') :
                          log'[i] = Ev("consume", "keydown", lastOp'.x)}) = 1)
           /\ ~(isDialogVisible_ /\ IsHideKey(lastOp'.x))
                => (/\ UNCHANGED nonTimerVars
                    /\ UNCHANGED <<timers, calls, fired>>
                    /\ log' = <<>>))]_vars

\* Space has hidden a dialog that animates back to its origin; the listener
\* stays active with no dialog on screen.
C16_Witness ==
  /\ lastOp.op = "keydown" /\ lastOp.x = KeySpace
  /\ ~isDialogVisible_ /\ dialogOrigin_ # NullElem
  /\ LogAt("consume", "keydown", KeySpace) # {}
  /\ LogAt("setTimeout", "hideEnd", 0) # {}
  /\ InSeq("dialogKeyDown", keydown)

\* C17: abortKeyDown_ listens exactly while the abort dialog is on screen.
\* There Enter and Space hide the dialog and leave for the index page,
\* Escape hides it and stays, another key does nothing; and a key-down
\* leaves the page only from the abort dialog and only by Enter or Space.
C17_AbortKeys ==
  /\ [](InSeq("abortKeyDown_", keydown)
          <=> (isDialogVisible_ /\ InSeq("dialogAbort", dialog.children)))
  /\ [][lastOp'.op = "keydown"
         => (/\ InSeq("abortKeyDown_", keydown)
                  => (/\ lastOp'.x \in {KeyEnter, KeySpace}
                           => (/\ ~isDialogVisible_' /\ navigated'
                               /\ dialog'.children = <<>>
                               /\ LogOf("indexPage")' # {})
                      /\ lastOp'.x = KeyEscape
                           => (/\ ~isDialogVisible_' /\ ~navigated'
                               /\ dialog'.children = <<>>)
                      /\ ~IsHideKey(lastOp'.x)
                           => UNCHANGED progVars
                      /\ IsHideKey(lastOp'.x)
                           => ~InSeq("abortKeyDown_", keydown'))
             /\ navigated'
                  => (/\ InSeq("abortKeyDown_", keydown)
                      /\ InSeq("dialogAbort", dialog.children)
                      /\ lastOp'.x \in {KeyEnter, KeySpace}))]_vars

\* Space in the abort dialog has hidden it and left the page.
C17_Witness ==
  /\ lastOp.op = "keydown" /\ lastOp.x = KeySpace
  /\ navigated /\ ~isDialogVisible_
  /\ BagIn("dialogAbort", body)
  /\ ~InSeq("abortKeyDown_", keydown)
  /\ LogAt("dispose", "abortDispose", calls) # {}

\* C18 (as stated): while the dropdown is closed no listener of the editor
\* is tracked or bound, and while it is open at most seven are.
C18_EditorListenersCleanedUp ==
  /\ ~dropDownOpen => (editorListeners_ = <<>> /\ boundListeners = {})
  /\ dropDownOpen => (Len(editorListeners_) <= 7
                       /\ Cardinality(boundListeners) <= 7)

\* The parts of a value of the field are options of their lists.
IsOption(variable, x) == indexOf(OptionsOf(variable), x) # -1
IsLegal(value) ==
  /\ IsOption("pattern", value.pattern)
  /\ IsOption("hat", value.hat)
  /\ IsOption("turtleName", value.turtleName)

\* C19: doClassValidation_ has returned null exactly when a part of the
\* value it filled in (and cached) is no option of its list, and the value
\* otherwise; the committed value is legal in every state.
C19_OnlyLegalValues ==
  /\ (returned = Null) <=> ~IsLegal(cachedValidatedValue_)
  /\ returned # Null => value_ = cachedValidatedValue_
  /\ IsLegal(value_)

\* A value with a part that is no option was refused with a legal value
\* committed before, after the arrows and setValue had changed the value.
C19_Witness ==
  /\ turtleOp.op = "fromXml" /\ returned = Null
  /\ ~IsLegal(cachedValidatedValue_) /\ IsLegal(value_)
  /\ value_ # TurtleValue("Dots", "Crown", "Yertle")
  /\ value_.turtleName = "Oogway" /\ value_.hat = "Fedora"

\* C20: with a legal value on display (the field not flagged invalid), a
\* setValue whose parts are options or omitted commits the value made of
\* the supplied parts and, for the omitted parts, of the parts of the
\* value committed before.
C20_UndefinedKeepsPart ==
  [][(/\ turtleOp'.op = "setValue"
      /\ ~isValueInvalid_ /\ IsLegal(value_)
      /\ \A variable \in DOMAIN turtleOp'.value :
           \/ turtleOp'.value[variable] = Undefined
           \/ IsOption(variable, turtleOp'.value[variable]))
       => (/\ returned' # Null /\ ~isValueInvalid_'
           /\ \A variable \in DOMAIN turtleOp'.value :
                value_'[variable] =
                  IF turtleOp'.value[variable] = Undefined
                  THEN value_[variable] ELSE turtleOp'.value[variable])]_vars

\* setValue with only a hat has changed the hat and kept the pattern and the
\* name, which were not the defaults.
C20_Witness ==
  /\ turtleOp.op = "setValue"
  /\ turtleOp.value = TurtleValue(Undefined, "Fedora", Undefined)
  /\ value_ = TurtleValue("Hexagons", "Fedora", "Oogway")
  /\ ~isValueInvalid_

\* C21: the element that toXml writes for a field with a legal committed
\* value has the pattern and the hat of that value as attributes and its
\* name as text content, and fromXml of that element commits the same
\* three parts, whatever value the loading field holds or displays.
C21_XmlRoundTrip ==
  [][turtleOp'.op = "toXml,fromXml"
       => \E source \in SavedFields :
            /\ IsLegal(source.value_)
            /\ toXml(source) = [pattern |-> source.value_.pattern,
                                hat |-> source.value_.hat,
                                textContent |-> source.value_.turtleName]
            /\ turtleOp'.value = TurtleValue(toXml(source).pattern,
                                             toXml(source).hat,
                                             toXml(source).textContent)
            /\ value_' = source.value_
            /\ displayValue_' = source.value_
            /\ ~isValueInvalid_' /\ returned' # Null]_vars

\* A saved value, none of its parts a default, was loaded into the field.
C21_Witness ==
  /\ turtleOp.op = "toXml,fromXml"
  /\ turtleOp.value = TurtleValue("Hexagons", "Mask", "Oogway")
  /\ value_ = TurtleValue("Hexagons", "Mask", "Oogway")
  /\ ~isValueInvalid_

\* The calls of hideDialog from the program and from a wired button.
IsHide(op) == op.op \in {"hideDialog", "hideClick"}
HideTimer == Timer("hideEnd", "", 0, HideDelay)
\* What hideDialog has done when it returns, whatever opt_animate was.
HiddenNow ==
  /\ ~isDialogVisible_'
  /\ dialogMouseDownWrapper_' = "null"
  /\ dialogMouseUpWrapper_' = "null"
  /\ dialogMouseMoveWrapper_' = "null"
  /\ dialog'.children = <<>>
  /\ CopiesIn("dialogHeader", body') <= CopiesIn("dialogHeader", body)
  /\ dialog'.visibility = "hidden" /\ dialog'.zIndex = -1

C24_DisposeBeforeDetach ==
  [][\A i \in 1..Len(log') :
       log'[i].e = "dispose"
         => /\ isDialogVisible_ /\ log'[i].id = dialogDispose_.id
            /\ SubSeq(log', i + 1, i + 3)
                 = <<Ev("isDialogVisible_", "false", 0),
                     Ev("children", "", Len(dialog.children)),
                     Ev("wrappers", "", 0)>>
            /\ \A j \in 1..Len(log') :
                 /\ log'[j].e = "detach" => j > i
                 /\ log'[j].e = "unbind" => j < i
            /\ \A c \in Contents(dialog.children) :
                 \E j \in (i + 1)..Len(log') : log'[j] = Ev("detach", c, 0)
            /\ Contents(dialog.children) # {}]_vars

\* The dispose function of a modal dialog that was being dragged has run
\* in a hideDialog, and the content was detached after it.
C24_Witness ==
  /\ IsHide(lastOp) /\ ~isDialogVisible_
  /\ \E i \in LogOf("dispose"), j \in LogOf("detach"), k \in LogOf("unbind") :
       /\ k < i /\ i < j
       /\ log[i + 2] = Ev("children", "", 2)
       /\ log[i + 1] = Ev("isDialogVisible_", "false", 0)

\* C25: the wiring loop of showDialog ends; it gives every element of the
\* content that carries the class its listeners, once, and takes the class
\* from it, so that only elements that carry the class and have no
\* listeners yet are ever wired, and an element has the class exactly as
\* long as it has no listeners.
C25_WiredOnce ==
  /\ [](addHideHandler = AllAutoHide \ hideListeners)
  /\ [][LET wired == {i \in 1..Len(log') : log'[i].e = "wire"}
         IN /\ hideListeners \subseteq hideListeners'
            /\ \A i \in wired :
                 /\ log'[i].c \in addHideHandler \ hideListeners
                 /\ log'[i].c \in hideListeners' \ addHideHandler'
                 /\ \A j \in wired : log'[j].c = log'[i].c => j = i
            /\ IsShow(lastOp')
                 => /\ addHideHandler' \cap AutoHideOf(lastOp'.content) = {}
                    /\ AutoHideOf(lastOp'.content) \subseteq hideListeners'
                    /\ {log'[i].c : i \in wired}
                         = addHideHandler \cap AutoHideOf(lastOp'.content)]_vars

\* A content with two marked elements is shown for the second time: both
\* have their listeners and none was wired in this call.
C25_Witness ==
  /\ IsShow(lastOp) /\ lastOp.content = "c1" /\ calls >= 2
  /\ {"c1.close", "c1.cancel"} \subseteq hideListeners
  /\ LogOf("wire") = {}
  /\ \E i \in LogOf("detach") : log[i].c = "c1"

\* C26: whenever the function endResult of showDialog makes the container
\* visible, it then focuses the first element of its content of class
\* primary if there is one, else the first of class secondary if there is
\* one, else the first button if there is one, and calls no focus() if
\* there is none; nothing else changes the focus.
C26_FocusPolicy ==
  [][/\ \A i \in 1..Len(log') :
          log'[i].e = "showEnd"
            => LET c == log'[i].c
                   focus == IF i < Len(log') /\ log'[i + 1].e = "focus"
                            THEN log'[i + 1].c ELSE "none"
               IN /\ Len(PrimaryOf(c)) > 0 => focus = PrimaryOf(c)[1]
                  /\ (Len(PrimaryOf(c)) = 0 /\ Len(SecondaryOf(c)) > 0)
                       => focus = SecondaryOf(c)[1]
                  /\ (Len(PrimaryOf(c)) = 0 /\ Len(SecondaryOf(c)) = 0
                        /\ Len(ButtonsOf(c)) > 0)
                       => focus = ButtonsOf(c)[1]
                  /\ (Len(PrimaryOf(c)) = 0 /\ Len(SecondaryOf(c)) = 0
                        /\ Len(ButtonsOf(c)) = 0)
                       => focus = "none"
     /\ \A i \in 1..Len(log') :
          log'[i].e = "focus" => (i > 1 /\ log'[i - 1].e = "showEnd")
     /\ LET focuses == {i \in 1..Len(log') : log'[i].e = "focus"}
        IN focused' = IF focuses = {} THEN focused
                      ELSE log'[CHOOSE i \in focuses :
                                  \A j \in focuses : j <= i].c]_vars

\* A dialog without buttons has become visible over a dialog whose primary
\* button keeps the focus.
C26_Witness ==
  /\ LogAt("showEnd", "c2", 0) # {} /\ LogOf("focus") = {}
  /\ isDialogVisible_ /\ InSeq("c2", dialog.children)
  /\ dialog.visibility = "visible"
  /\ focused = "c1.cancel"

\* The abort dialog is on screen as showDialog(content, null, false, true,
\* ...) puts it there: with a header to drag it by and visible at once.
AbortOnScreen ==
  /\ isDialogVisible_ /\ dialogOrigin_ = NullElem
  /\ dialog.children = <<"dialogHeader", "dialogAbort">>
  /\ dialog.visibility = "visible"
\* Nothing but the abort dialog itself stands in the way of abortOffer.
Calm == ~wsDragging /\ (isDialogVisible_ => InSeq("dialogAbort", dialog.children))

\* C27: if the level is never solved, the page is not left and from some
\* time on the workspace is not dragged and no other dialog is on screen,
\* then, the timers firing, a pending retry of abortOffer leads to the
\* abort dialog on screen; and a run of abortOffer that finds the level
\* solved, or shows the dialog (modal, with its backdrop, and without
\* animation: visible when the run returns), sets no timer.
C27_RetryShowsAbortDialog ==
  /\ [][(lastOp'.op = "abortOffer"
          /\ (levelDone \/ (~isDialogVisible_ /\ ~wsDragging)))
           => /\ \A i \in 1..Len(log') : log'[i].e # "setTimeout"
              /\ Cardinality(Retries(timers'))
                   = Cardinality(Retries(timers))
                     - (IF IsRetry(lastOp') THEN 1 ELSE 0)
              /\ ~levelDone
                   => (/\ AbortOnScreen'
                       /\ shadow'.visibility = "visible"
                       /\ shadow'.zIndex = ShadowZ
                       /\ dialogMouseDownWrapper_' # "null"
                       /\ InSeq("abortKeyDown_", keydown'))]_vars
  /\ ([]~levelDone /\ []~navigated /\ <>[]Calm)
       => [](Retries(timers) # {} => <>AbortOnScreen)

\* A retry has shown the abort dialog, and no retry is pending.
C27_Witness ==
  /\ IsRetry(lastOp) /\ AbortOnScreen /\ ~levelDone
  /\ Retries(timers) = {} /\ calls >= 2
  /\ LogAt("showEnd", "dialogAbort", 0) # {}

\* C28: dialogKeyDown is a listener of the body only while the dialog of
\* storageAlert is on screen, and abortKeyDown_ only while the dialog of
\* abortOffer is, each with the dispose function that removes it stored;
\* with no dialog on screen the body has no keydown listener.
C28_KeyListenersOnlyWhileVisible ==
  /\ InSeq("dialogKeyDown", keydown)
       => /\ isDialogVisible_ /\ InSeq("dialogStorage", dialog.children)
          /\ dialogDispose_.fn = "stopDialogKeyDown"
  /\ InSeq("abortKeyDown_", keydown)
       => /\ isDialogVisible_ /\ InSeq("dialogAbort", dialog.children)
          /\ dialogDispose_.fn = "abortDispose"
  /\ ~isDialogVisible_ => keydown = <<>>

\* The abort dialog was hidden by the Escape key, after the storage alert
\* had been on screen: both listeners are gone and the page is still there.
C28_Witness ==
  /\ lastOp.op = "keydown" /\ lastOp.x = KeyEscape
  /\ ~isDialogVisible_ /\ keydown = <<>> /\ ~navigated
  /\ "abortOk" \in okListeners /\ "storageOk" \in hideListeners
  /\ \E i \in LogOf("dispose") : log[i].c = "abortDispose"

\* C29 (as stated): when a handler has returned with the flag set, the
\* container holds a content, and if showDialog ran in the handler it holds
\* the content of the last call and that call is the one whose dispose
\* function is stored; a hideDialog whose dispose function shows a dialog
\* returns with that dialog on screen, attached and with its dispose
\* function stored.
C29_FlagAndContainerAgree ==
  /\ [](isDialogVisible_ => Contents(dialog.children) # {})
  /\ [][LET attaches == {i \in 1..Len(log') : log'[i].e = "attach"}
             last == CHOOSE k \in attaches : \A j \in attaches : j <= k
         IN /\ (attaches # {} /\ isDialogVisible_')
                 => /\ InSeq(log'[last].c, dialog'.children)
                    /\ log'[last].id = calls'
                    /\ dialogDispose_'.fn # "null"
                         => dialogDispose_'.id = calls'
            /\ (IsHide(lastOp')
                 /\ \E i \in 1..Len(log') : log'[i] = Ev("dispose", "reShow",
                                                        dialogDispose_.id))
                 => /\ isDialogVisible_'
                    /\ InSeq("c2", dialog'.children)
                    /\ dialogDispose_' = [fn |-> "plain", id |-> calls']]_vars

\* The operations that call setValue.
SetsValue(op) ==
  op.op \in {"setValue", "fromXml", "toXml,fromXml", "arrow", "randomize"}

\* C30: a setValue with a part that is supplied and is no option of its
\* list leaves the committed value as it was, sets the invalid flag and
\* displays the value given with the parts that are no options set to
\* null (and the omitted parts as they were displayed); a setValue that is
\* accepted clears the flag and displays the value it commits; and
\* whenever the flag is false the displayed value is the committed one.
C30_RejectedValueIsDisplayed ==
  /\ [](~isValueInvalid_ => displayValue_ = value_)
  /\ [][/\ ((/\ turtleOp'.op \in {"setValue", "fromXml"}
              /\ \E variable \in DOMAIN turtleOp'.value :
                   /\ ~IsUndefined(turtleOp'.value[variable])
                   /\ ~IsOption(variable, turtleOp'.value[variable]))
             => (/\ value_' = value_
                 /\ isValueInvalid_' /\ returned' = Null
                 /\ \A variable \in DOMAIN turtleOp'.value :
                      displayValue_'[variable] =
                        IF IsUndefined(turtleOp'.value[variable])
                        THEN displayValue_[variable]
                        ELSE IF IsOption(variable, turtleOp'.value[variable])
                        THEN turtleOp'.value[variable]
                        ELSE Null))
         /\ ((SetsValue(turtleOp') /\ returned' # Null)
              => (~isValueInvalid_' /\ displayValue_' = value_'))
         /\ ((SetsValue(turtleOp') /\ returned' = Null)
              => (isValueInvalid_' /\ value_' = value_))]_vars

\* A value with a pattern that is no option and a hat that is one was
\* refused: the hat is displayed, not committed, and the pattern is null.
C30_Witness ==
  /\ turtleOp.op = "setValue"
  /\ turtleOp.value = TurtleValue("Plaid", "Fedora", Undefined)
  /\ isValueInvalid_ /\ returned = Null
  /\ displayValue_ = TurtleValue(Null, "Fedora", "Oogway")
  /\ value_ = TurtleValue("Hexagons", "Mask", "Oogway")

\* C31: while a part is null in the displayed value (a rejected setValue
\* left it so), a setValue that omits the part is rejected, whatever valid
\* parts it supplies and although the committed part is an option: the
\* committed value stays, the part stays null and the flag set; the part
\* is displayed again once a setValue supplies an option for it.
C31_OmittedPartFromDisplay ==
  [][\A p \in {"pattern", "hat", "turtleName"} :
       (displayValue_[p] = Null /\ SetsValue(turtleOp'))
         => /\ isValueInvalid_ /\ IsOption(p, value_[p])
            /\ ((\/ (turtleOp'.op \in {"setValue", "fromXml"}
                      /\ IsUndefined(turtleOp'.value[p]))
                  \/ (turtleOp'.op = "arrow" /\ turtleOp'.variable # p))
                 => (/\ returned' = Null /\ value_' = value_
                     /\ displayValue_'[p] = Null /\ isValueInvalid_'))
            /\ ((/\ turtleOp'.op \in {"setValue", "fromXml"}
                  /\ IsOption(p, turtleOp'.value[p]))
                 => displayValue_'[p] = turtleOp'.value[p])]_vars

\* With the pattern null on display, a setValue of a hat alone was
\* rejected: the hat is displayed and the committed value is as it was.
C31_Witness ==
  /\ turtleOp.op = "setValue"
  /\ turtleOp.value = TurtleValue(Undefined, "Fedora", Undefined)
  /\ returned = Null /\ isValueInvalid_
  /\ displayValue_.pattern = Null /\ displayValue_.hat = "Fedora"
  /\ IsLegal(value_) /\ value_.hat # "Fedora"

\* C32: an arrow asks setValue for a value of its own part alone (the
\* other parts are validated as they are displayed): the option one place
\* to the left or right of the displayed one, the last option to the left
\* of the first and the first to the right of the last; with a displayed
\* part that is no option, the first option for the right arrow and the
\* last for the left one.  With a legal value on display, right and then
\* left gives the value back, and so does the same arrow pressed as many
\* times as the list is long.
C32_ArrowsWrapAround ==
  /\ [](IsLegal(displayValue_)
         => \A variable \in {"pattern", "hat", "turtleName"} :
              LET back == arrowListener(arrowListener(Field, variable, 1),
                                        variable, -1)
              IN /\ back.value_ = value_ /\ back.displayValue_ = displayValue_
                 /\ arrowListener(Field, variable, 1).value_ # value_
                 /\ \A direction \in {-1, 1} :
                      LET round == arrowTimes(Field, variable, direction,
                                              Len(OptionsOf(variable)))
                      IN /\ round.value_ = value_
                         /\ round.displayValue_ = displayValue_)
  /\ [][turtleOp'.op = "arrow"
         => LET variable == turtleOp'.variable
                array == OptionsOf(variable)
                n == Len(array)
                shown == displayValue_[variable]
                i == CHOOSE k \in 1..n : array[k] = shown
                next == IF ~IsOption(variable, shown)
                        THEN (IF turtleOp'.direction = 1 THEN 1 ELSE n)
                        ELSE ((i - 1 + turtleOp'.direction + n) % n) + 1
            IN /\ cachedValidatedValue_' =
                    [displayValue_ EXCEPT ![variable] = array[next]]
               /\ displayValue_' = cachedValidatedValue_'
               /\ IsLegal(displayValue_) => value_' = displayValue_']_vars

\* The left arrow of the hat was pressed and the last hat is committed:
\* the index went round from the first hat, or from a hat that is none.
C32_Witness ==
  /\ turtleOp.op = "arrow" /\ turtleOp.variable = "hat"
  /\ turtleOp.direction = -1
  /\ value_.hat = At(HATS, Len(HATS) - 1) /\ ~isValueInvalid_
  /\ value_.pattern = At(PATTERNS, 0) /\ value_.turtleName = At(NAMES, 0)

====
